---- MODULE Spec2Model ----
(***************************************************************************)
(* Model of the bookish client-side widgets.                               *)
(*                                                                         *)
(* Part 1: the incremental search box, jQuery.fn.searchbox                 *)
(* (src/bookish/static/js/search.js).  One search box instance is          *)
(* modelled: its closure variables, the text box value, the results        *)
(* container, the live setTimeout timers and the $.ajax requests in        *)
(* flight.  Every event handler of the widget is one action.               *)
(*                                                                         *)
(* Part 2: the filter engine of a ".filtered" container                    *)
(* (src/bookish/static/js/filters.js).  One container is modelled: its     *)
(* markup, the controls setUpFilter gives it, the values of the controls   *)
(* and what is displayed.  Every handler of a control is one action, and    *)
(* runs updateFilter to its end or to the exception it throws.             *)
(*                                                                         *)
(* Part 3: the editor shell (src/bookish/static/editor/js/main.js): the    *)
(* previewer object and the bookkeeping of the open tabs.  The variables   *)
(* are the script's globals, the tab elements of the title bar, and the    *)
(* $.ajax requests in flight.  Every handler is one action.                *)
(***************************************************************************)
EXTENDS Integers, Sequences, FiniteSets, TLC

\* ------------------------------------------------------------------ bounds
\* Largest sequence number a query may carry (requests 0..MaxSeq).
MaxSeq == 1
\* Largest number of setTimeout timers alive at once.
MaxTimers == 2
\* Largest value the Down key may push the selection index to.
MaxSel == 2
\* Largest number of /_preview/ requests in flight at once.
MaxPreviews == 2
\* Largest number of file loads in flight at once.
MaxLoads == 2
\* Largest number of tabs in the title bar.
MaxTabs == 3

\* ------------------------------------------------------- program constants
KeyEnter == 13
KeyEscape == 27
KeyUp == 38
KeyDown == 40
\* Any other key: the last else branch of the keydown handler ("a").
KeyOther == 65

KeyCodes == {KeyEnter, KeyEscape, KeyUp, KeyDown, KeyOther}

\* JavaScript null, as the value of catname and lastqstring.
null == "null"
\* What attr() returns for an attribute the element does not carry.
undefined == "undefined"
\* The number Number() returns for a value that is no numeral.
NaN == -99

\* Values of the text box: empty, and a text with a character that has to
\* be escaped in a URL.
Texts == {"", "a b"}
\* Category keys (data-name) a response fragment may carry.
CatNames == {"docs", "api"}
\* Result rows (.hit) by class: a row with a link, a row without one, the
\* "find page" row, and the "show more" row of a category, which reads the
\* data-name of the category element it sits under.
Link == [kind |-> "link", name |-> null]
NoLink == [kind |-> "nolink", name |-> null]
FindPage == [kind |-> "findpage", name |-> null]
More(name) == [kind |-> "more", name |-> name]

\* The result lists (.hit rows, in document order) a response fragment may
\* hold: none, one, two and three rows, with rows of every class.
RowLists ==
    { <<>>,
      <<Link>>,
      <<Link, NoLink>>,
      <<More("api"), Link>>,
      <<Link, More("docs"), FindPage>> }

VARIABLES
    noPopup,      \* data-popup == "false": results shown inline
    textbox,      \* textbox.val()
    catname,
    resultcount,
    selected,
    sequence,
    lastqstring,
    timer,        \* the handle in `timer`: null, or of a "live" or "dead" timer
    pending,      \* number of live timers (they expire oldest first)
    inflight,     \* $.ajax requests whose callback has not run yet
    resultsdiv,   \* content of the results container
    cssSel,       \* index of the .hit carrying class "selected" (-1: none)
    visible,      \* results container faded in
    location,     \* window.location
    ev,           \* history: the event handled last
    run,          \* history: 1 while a run of ordinary keystrokes is open
    runsent       \* history: requests dispatched since the run began

svars == <<noPopup, textbox, catname, resultcount, selected, sequence, lastqstring,
           timer, pending, inflight, resultsdiv, cssSel, visible, location,
           ev, run, runsent>>

VARIABLES
    container,    \* the markup of the .filtered element e
    controls,     \* the controls of e.children(".interface") after setUpFilter
    titleval,     \* value of the .title-filter text box
    sortval,      \* value of the .sort menu
    tagval,       \* value of the .tags menu
    menuval,      \* value of the custom .filter-menu
    origShown,    \* e.children(".original") is displayed
    sorted,       \* e.children(".sorted"): the items cloned, in order (<<>>: none)
    sortedShown,  \* e.children(".sorted") is displayed
    itemShown,    \* display of each .item of the original
    cloneShown,   \* display of the clone of each item
    headShown,    \* display of each section.heading of the original
    sortArgNull,  \* the engine's sort hands an untitled item to the comparator as a
    fev,          \* history: the control event handled last
    builds        \* history: number of times the sorted holder was appended

fvars == <<container, controls, titleval, sortval, tagval, menuval, origShown,
           sorted, sortedShown, itemShown, cloneShown, headShown, sortArgNull,
           fev, builds>>

VARIABLES
    previewing,          \* previewer.previewing
    needsPreview,        \* previewer.needsPreview
    previews,            \* number of /_preview/ requests in flight
    previewPanelHidden,  \* the global of that name
    activeFile,          \* paths of the entries of activeFile
    modifiedFile,        \* paths of the entries of modifiedFile
    cmInstanceList,      \* the editor instances, one token per instance
    activeTabPos,        \* the global of that name
    codeMirror,          \* the current instance: an instance or undefined
    tabs,                \* the li elements of .titleBar .nav, in document order
    loading,             \* loadFile requests in flight, per path
    eev                  \* history: what the last handler did for a pending preview

evars == <<previewing, needsPreview, previews, previewPanelHidden, activeFile,
           modifiedFile, cmInstanceList, activeTabPos, codeMirror, tabs, loading,
           eev>>

vars == <<svars, fvars, evars>>

\* ---------------------------------------------------------------- helpers

\* Number(html.attr("data-sequence")): a numeral gives its value, the empty
\* string gives 0, anything else (undefined, a non-numeric string) gives NaN.
Number(s) ==
    IF s = "" THEN 0
    ELSE IF s = undefined THEN NaN
    ELSE LET values == {n \in 0..(MaxSeq + 1) : ToString(n) = s}
         IN  IF values = {} THEN NaN ELSE CHOOSE n \in values : TRUE

\* The JavaScript comparison a < b: false as soon as an operand is NaN.
LessThan(a, b) == a # NaN /\ b # NaN /\ a < b

StaleNever(seq, cur) == FALSE
StaleOlderOnly(seq, cur) == LessThan(seq, cur - 1)
\* fillResults, line 134: the response is dropped when seq < sequence.
Stale(seq, cur) == LessThan(seq, cur)

\* keydown, lines 60-64: the Up key.
UpSel(sel, count) == IF sel = 0 \/ sel = -1 THEN count - 1 ELSE sel - 1

DownSelNoWrap(sel, count) == sel + 1
\* keydown, lines 69-73: the Down key.
DownSel(sel, count) == IF sel = count - 1 THEN 0 ELSE sel + 1

\* updateCss: class "selected" goes to the hit whose index is `sel`, and is
\* taken from every other hit.
updateCss(sel, rows) == IF sel \in 0..(Len(rows) - 1) THEN sel ELSE -1

\* clearTimeout(timer) on the timers alive: the timer set last is the
\* youngest one alive, when it is alive at all.
clearTimeout(live, handle) == IF handle = "live" THEN live - 1 ELSE live

EmptyDiv == [filled |-> FALSE, seq |-> NaN, rows |-> <<>>]

\* The category elements (.cat) of a result list: a fragment with rows shows
\* them under its categories, an empty one has none.
Cats(rows) == IF rows = <<>> THEN {} ELSE CatNames

Here == [to |-> "here", q |-> ""]

UpdateNoForce(force, cat) ==
    LET qstring == textbox
        c == IF qstring = "" THEN null ELSE cat
    IN /\ catname' = c
       /\ visible' = TRUE
       /\ IF qstring # lastqstring
          THEN /\ sequence < MaxSeq
               /\ sequence' = sequence + 1
               /\ inflight' = inflight \cup
                      {[seq |-> sequence + 1, q |-> qstring, category |-> c]}
               /\ lastqstring' = qstring
          ELSE UNCHANGED <<sequence, inflight, lastqstring>>

UpdateSameSeq(force, cat) ==
    LET qstring == textbox
        c == IF qstring = "" THEN null ELSE cat
    IN /\ catname' = c
       /\ visible' = TRUE
       /\ IF force \/ qstring # lastqstring
          THEN /\ sequence < MaxSeq
               /\ sequence' = IF force THEN sequence ELSE sequence + 1
               /\ inflight' = inflight \cup
                      {[seq |-> sequence', q |-> qstring, category |-> c]}
               /\ lastqstring' = qstring
          ELSE UNCHANGED <<sequence, inflight, lastqstring>>

UpdateKeepsCat(force, cat) ==
    LET qstring == textbox
    IN /\ catname' = cat
       /\ visible' = TRUE
       /\ IF force \/ qstring # lastqstring
          THEN /\ sequence < MaxSeq
               /\ sequence' = sequence + 1
               /\ inflight' = inflight \cup
                      {[seq |-> sequence + 1, q |-> qstring, category |-> cat]}
               /\ lastqstring' = qstring
          ELSE UNCHANGED <<sequence, inflight, lastqstring>>

\* update(force), lines 166-198, entered with catname = cat.
update(force, cat) ==
    LET qstring == textbox
        c == IF qstring = "" THEN null ELSE cat
    IN /\ catname' = c
       /\ visible' = TRUE
       /\ IF force \/ qstring # lastqstring
          THEN /\ sequence < MaxSeq
               /\ sequence' = sequence + 1
               /\ inflight' = inflight \cup
                      {[seq |-> sequence + 1, q |-> qstring, category |-> c]}
               /\ lastqstring' = qstring
          ELSE UNCHANGED <<sequence, inflight, lastqstring>>

\* setCategory(name), lines 97-100.
setCategory(name) == update(TRUE, name)

\* The characters of a text box value.
Chars(s) == IF s = "a b" THEN <<"a", " ", "b">> ELSE <<>>

\* Characters encodeURIComponent leaves alone, among those of Texts.
Unreserved == {"a", "b"}

\* The escape sequence of a character, "%" and the two hexadecimal digits of
\* its UTF-8 byte: the space is the one escaped character of Texts.
Escape(c) == "%20"

RECURSIVE EncodeChars(_)
EncodeChars(cs) ==
    IF cs = <<>> THEN ""
    ELSE (IF Head(cs) \in Unreserved THEN Head(cs) ELSE Escape(Head(cs)))
         \o EncodeChars(Tail(cs))

EncodeNone(s) == s
\* encodeURIComponent(textbox.val()), line 109.
encodeURIComponent(s) == EncodeChars(Chars(s))

\* enterClick, lines 102-121, on the hit at index i (-1: no such hit).  A
\* location of kind "find" stands for the address "/find?q=" + q.
enterClick(i) ==
    LET e == IF i \in 0..(Len(resultsdiv.rows) - 1)
             THEN resultsdiv.rows[i + 1]
             ELSE [kind |-> "nolink", name |-> null]
    IN IF e.kind = "more"
       THEN /\ setCategory(e.name)
            /\ UNCHANGED location
       ELSE /\ location' =
                   IF e.kind = "findpage"
                   THEN [to |-> "find", q |-> encodeURIComponent(textbox)]
                   ELSE IF e.kind = "link" THEN [to |-> "href", q |-> ""]
                   ELSE location
            /\ UNCHANGED <<catname, visible, sequence, inflight, lastqstring>>

FillKeepsSelection(html) ==
    LET seq == Number(html.sequence)
    IN IF Stale(seq, sequence)
       THEN UNCHANGED <<resultsdiv, resultcount, selected, cssSel>>
       ELSE /\ resultsdiv' = [filled |-> TRUE, seq |-> seq,
                              rows |-> html.rows]
            /\ resultcount' = Len(html.rows)
            /\ selected' = selected
            /\ cssSel' = updateCss(selected, html.rows)

\* fillResults(html), lines 130-164.
fillResults(html) ==
    LET seq == Number(html.sequence)
    IN IF Stale(seq, sequence)
       THEN UNCHANGED <<resultsdiv, resultcount, selected, cssSel>>
       ELSE /\ resultsdiv' = [filled |-> TRUE, seq |-> seq,
                              rows |-> html.rows]
            /\ resultcount' = Len(html.rows)
            /\ selected' = 0
            /\ cssSel' = updateCss(0, html.rows)

\* ------------------------------------------------------------------- Init

\* A page without a filtered container: $(".filtered").each() of
\* filters.js, lines 253-258, has nothing to set up.
NoContainer == [items |-> <<>>, heads |-> 0, sortable |-> FALSE, menu |-> FALSE]
NoControls == [title |-> FALSE, sort |-> <<>>, tags |-> {}, menu |-> {}]

FilterIdle ==
    /\ container = NoContainer
    /\ controls = NoControls
    /\ titleval = <<>>
    /\ sortval = "source"
    /\ tagval = "*"
    /\ menuval = "*"
    /\ origShown = TRUE
    /\ sorted = <<>>
    /\ sortedShown = FALSE
    /\ itemShown = <<>>
    /\ cloneShown = <<>>
    /\ headShown = <<>>
    /\ sortArgNull = FALSE
    /\ fev = [type |-> "init"]
    /\ builds = 0

\* State after $(box).searchbox(): lines 20-25, then update() when inline.
SearchInit ==
    /\ noPopup \in BOOLEAN
    /\ textbox \in Texts
    /\ catname = null
    /\ resultcount = 0
    /\ selected = 0
    /\ timer = null
    /\ pending = 0
    /\ resultsdiv = EmptyDiv
    /\ cssSel = -1
    /\ location = Here
    /\ IF noPopup
       THEN /\ sequence = 0
            /\ inflight = {[seq |-> 0, q |-> textbox, category |-> null]}
            /\ lastqstring = textbox
            /\ visible = TRUE
       ELSE /\ sequence = -1
            /\ inflight = {}
            /\ lastqstring = null
            /\ visible = FALSE
    /\ ev = [type |-> "init"]
    /\ run = 0
    /\ runsent = 0

\* Paths of the files the editor can be asked to open, as character
\* sequences: "/a", "/ab" (which contains "/a") and "/c".
PathA == <<"/", "a">>
PathAB == <<"/", "a", "b">>
PathC == <<"/", "c">>
Paths == {PathA, PathAB, PathC}

\* State after main.js has run: the globals of lines 340-350, the previewer
\* of lines 354-357, the first editor instance of lines 467-475, an empty
\* title bar and no request in flight.
EditorIdle ==
    /\ previewing = FALSE
    /\ needsPreview = FALSE
    /\ previews = 0
    /\ previewPanelHidden = FALSE
    /\ activeFile = <<>>
    /\ modifiedFile = <<>>
    /\ cmInstanceList = <<"cm">>
    /\ activeTabPos = -1
    /\ codeMirror = "cm"
    /\ tabs = <<>>
    /\ loading = [p \in Paths |-> 0]
    /\ eev = "none"

\* The page with the search box and no filtered container.
Init == SearchInit /\ FilterIdle /\ EditorIdle

\* ---------------------------------------------------------------- actions

\* textbox.focus handler, lines 40-41.
Focus ==
    /\ location = Here
    /\ update(FALSE, catname)
    /\ UNCHANGED <<noPopup, textbox, resultcount, selected, timer, pending,
                   resultsdiv, cssSel, location>>
    /\ ev' = [type |-> "focus"]
    /\ run' = 0
    /\ runsent' = 0
    /\ UNCHANGED <<fvars, evars>>

\* keydown handler, lines 44-85; val is the text box value once the key's
\* default action (allowed for ordinary keys only) has run.
keydown(keycode, val) ==
    /\ location = Here
    /\ IF keycode = KeyEnter
       THEN /\ enterClick(cssSel)
            /\ UNCHANGED <<textbox, resultcount, selected, timer, pending,
                           resultsdiv, cssSel>>
            /\ run' = 0
            /\ runsent' = 0
       ELSE IF keycode = KeyEscape
       THEN /\ visible' = IF noPopup THEN visible ELSE FALSE
            /\ UNCHANGED <<textbox, catname, resultcount, selected, sequence,
                           lastqstring, timer, pending, inflight, resultsdiv,
                           cssSel, location>>
            /\ run' = 0
            /\ runsent' = 0
       ELSE LET other == keycode # KeyUp /\ keycode # KeyDown
                sel == IF keycode = KeyUp THEN UpSel(selected, resultcount)
                       ELSE IF keycode = KeyDown THEN DownSel(selected, resultcount)
                       ELSE 0
                live == IF other /\ timer # null
                        THEN clearTimeout(pending, timer)
                        ELSE pending
            IN /\ live < MaxTimers
               /\ sel <= MaxSel
               /\ selected' = sel
               /\ cssSel' = IF other THEN cssSel ELSE updateCss(sel, resultsdiv.rows)
               /\ timer' = "live"
               /\ pending' = live + 1
               /\ textbox' = IF other THEN val ELSE textbox
               /\ UNCHANGED <<catname, resultcount, sequence, lastqstring,
                              inflight, resultsdiv, visible, location>>
               /\ run' = IF other THEN 1 ELSE 0
               /\ runsent' = IF other /\ run = 1 THEN runsent ELSE 0
    /\ UNCHANGED noPopup
    /\ ev' = [type |-> "key", code |-> keycode]
    /\ UNCHANGED <<fvars, evars>>

\* A timer set by the keydown handler expires: update(), line 83.
Timeout ==
    /\ location = Here
    /\ pending > 0
    /\ pending' = pending - 1
    /\ timer' = IF pending = 1 THEN "dead" ELSE timer
    /\ update(FALSE, catname)
    /\ UNCHANGED <<noPopup, textbox, resultcount, selected, resultsdiv,
                   cssSel, location>>
    /\ ev' = [type |-> "timeout", last |-> (pending = 1)]
    /\ run' = IF pending = 1 THEN 0 ELSE run
    /\ runsent' = IF run = 1 /\ pending > 1
                  THEN runsent + (sequence' - sequence)
                  ELSE 0
    /\ UNCHANGED <<fvars, evars>>

\* The fragments the server may answer request r with.
Fragments(r) ==
    [sequence : {ToString(r.seq), undefined},
     rows : RowLists]

\* success callback of $.ajax, lines 189-191.
Success(r, html) ==
    /\ location = Here
    /\ inflight' = inflight \ {r}
    /\ fillResults(html)
    /\ UNCHANGED <<noPopup, textbox, catname, sequence, lastqstring, timer,
                   pending, visible, location, run, runsent>>
    /\ ev' = [type |-> "success", seq |-> Number(html.sequence),
              applied |-> ~Stale(Number(html.sequence), sequence)]
    /\ UNCHANGED <<fvars, evars>>

ErrorClears(r) ==
    /\ location = Here
    /\ inflight' = inflight \ {r}
    /\ resultsdiv' = EmptyDiv
    /\ resultcount' = 0
    /\ UNCHANGED <<noPopup, textbox, catname, selected, sequence,
                   lastqstring, timer, pending, cssSel, visible,
                   location, run, runsent>>
    /\ ev' = [type |-> "error", q |-> r.q]
    /\ UNCHANGED <<fvars, evars>>

\* error callback of $.ajax, lines 192-194: a console message, nothing else.
Error(r) ==
    /\ location = Here
    /\ inflight' = inflight \ {r}
    /\ UNCHANGED <<noPopup, textbox, catname, resultcount, selected, sequence,
                   lastqstring, timer, pending, resultsdiv, cssSel, visible,
                   location, run, runsent>>
    /\ ev' = [type |-> "error", q |-> r.q]
    /\ UNCHANGED <<fvars, evars>>

\* mouseover handler of the hits, lines 141-153.
MouseOver(i) ==
    /\ location = Here
    /\ visible
    /\ i \in 0..(Len(resultsdiv.rows) - 1)
    /\ selected' = i
    /\ cssSel' = i
    /\ UNCHANGED <<noPopup, textbox, catname, resultcount, sequence, lastqstring,
                   timer, pending, inflight, resultsdiv, visible, location,
                   run, runsent>>
    /\ ev' = [type |-> "mouseover", hit |-> i]
    /\ UNCHANGED <<fvars, evars>>

\* click handler of the hits, lines 154-156.
Click(i) ==
    /\ location = Here
    /\ visible
    /\ i \in 0..(Len(resultsdiv.rows) - 1)
    /\ enterClick(i)
    /\ UNCHANGED <<noPopup, textbox, resultcount, selected, timer, pending,
                   resultsdiv, cssSel>>
    /\ ev' = [type |-> "click",
              forced |-> (resultsdiv.rows[i + 1].kind = "more" /\ textbox = lastqstring)]
    /\ run' = 0
    /\ runsent' = 0
    /\ UNCHANGED <<fvars, evars>>

\* click handler of the category elements (.cat), lines 158-161.
CatClick(name) ==
    /\ location = Here
    /\ visible
    /\ name \in Cats(resultsdiv.rows)
    /\ setCategory(name)
    /\ UNCHANGED <<noPopup, textbox, resultcount, selected, timer, pending,
                   resultsdiv, cssSel, location>>
    /\ ev' = [type |-> "cat", name |-> name, forced |-> (textbox = lastqstring)]
    /\ run' = 0
    /\ runsent' = 0
    /\ UNCHANGED <<fvars, evars>>

\* body mouseup handler, lines 28-35: a press outside the box and the results.
MouseUp ==
    /\ location = Here
    /\ ~noPopup
    /\ visible' = FALSE
    /\ UNCHANGED <<noPopup, textbox, catname, resultcount, selected, sequence,
                   lastqstring, timer, pending, inflight, resultsdiv, cssSel,
                   location, run, runsent>>
    /\ ev' = [type |-> "mouseup"]
    /\ UNCHANGED <<fvars, evars>>

Next ==
    \/ Focus
    \/ \E keycode \in KeyCodes, val \in Texts : keydown(keycode, val)
    \/ Timeout
    \/ \E r \in inflight : \E html \in Fragments(r) : Success(r, html)
    \/ \E r \in inflight : Error(r)
    \/ \E i \in 0..(resultcount - 1) : MouseOver(i)
    \/ \E i \in 0..(resultcount - 1) : Click(i)
    \/ \E name \in CatNames : CatClick(name)
    \/ MouseUp

Spec == Init /\ [][Next]_vars

\* ======================================================================
\* Part 2: the filter engine (filters.js)
\* ======================================================================

\* ------------------------------------------------------ strings and order
\* Attribute values and the text typed are sequences of characters.
UpperCase == <<"A", "B", "C", "D", "E", "F", "G", "H", "I", "J", "K", "L", "M",
               "N", "O", "P", "Q", "R", "S", "T", "U", "V", "W", "X", "Y", "Z">>
LowerCase == <<"a", "b", "c", "d", "e", "f", "g", "h", "i", "j", "k", "l", "m",
               "n", "o", "p", "q", "r", "s", "t", "u", "v", "w", "x", "y", "z">>

IsUpper(c) == \E i \in DOMAIN UpperCase : UpperCase[i] = c
Lower(c) == IF IsUpper(c)
            THEN LowerCase[CHOOSE i \in DOMAIN UpperCase : UpperCase[i] = c]
            ELSE c

\* String.prototype.toLowerCase, line 95.
toLowerCase(s) == [i \in 1..Len(s) |-> Lower(s[i])]

\* s.indexOf(t) > -1: how the attribute selector [name*="t"] tests a value.
Contains(s, t) == \E i \in 0..(Len(s) - Len(t)) : SubSeq(s, i + 1, i + Len(t)) = t

\* Lexicographic comparison of two sequences of numbers: -1, 0 or 1.
RECURSIVE Lex(_, _)
Lex(a, b) ==
    IF a = <<>> THEN (IF b = <<>> THEN 0 ELSE -1)
    ELSE IF b = <<>> THEN 1
    ELSE IF Head(a) < Head(b) THEN -1
    ELSE IF Head(a) > Head(b) THEN 1
    ELSE Lex(Tail(a), Tail(b))

\* Collation keys of a letter: its place in the alphabet whatever its case,
\* and its case (lower case first) to break ties.
Primary(c) == CHOOSE i \in DOMAIN LowerCase : LowerCase[i] = Lower(c)
Tertiary(c) == IF IsUpper(c) THEN 1 ELSE 0

\* String.prototype.localeCompare, line 6: alphabetical whatever the case.
localeCompare(a, b) ==
    LET p == Lex([i \in 1..Len(a) |-> Primary(a[i])],
                 [i \in 1..Len(b) |-> Primary(b[i])])
    IN IF p # 0 THEN p
       ELSE Lex([i \in 1..Len(a) |-> Tertiary(a[i])],
                [i \in 1..Len(b) |-> Tertiary(b[i])])

\* ---------------------------------------------------------------- markup
\* An .item: data-title (hasTitle: the attribute is there), data-tags as the
\* set of its words, data-group (there or not), the data-kind attribute read
\* by the custom menu ("": not there), and the section.heading it sits under
\* (0: under none).
Item(t, tags, group, kind, head) ==
    [hasTitle |-> TRUE, title |-> t, tags |-> tags, group |-> group,
     kind |-> kind, head |-> head]
Untitled(tags, group, kind, head) ==
    [hasTitle |-> FALSE, title |-> <<>>, tags |-> tags, group |-> group,
     kind |-> kind, head |-> head]

Apple == <<"A", "p", "p", "l", "e">>
Banana == <<"B", "a", "n", "a", "n", "a">>
Apricot == <<"a", "p", "r", "i", "c", "o", "t">>

\* Two items, sortable, no headings: title filter and tag menu only.
Fruit ==
    [items |-> << Item(Apple, {"fruit", "red"}, FALSE, "", 0),
                  Item(Banana, {"fruit", "yellow"}, FALSE, "", 0) >>,
     heads |-> 0, sortable |-> TRUE, menu |-> FALSE]
\* Three items under two headings and a third heading without items,
\* sortable, two items with a group, a custom menu on data-kind.
Grouped ==
    [items |-> << Item(Apricot, {"fruit"}, TRUE, "stone", 1),
                  Item(Banana, {"fruit", "yellow"}, FALSE, "berry", 1),
                  Item(Apple, {"fruit", "red"}, TRUE, "", 2) >>,
     heads |-> 3, sortable |-> TRUE, menu |-> TRUE]
\* Three items, none with a title, under one heading.
NoTitles ==
    [items |-> << Untitled({"red"}, FALSE, "", 1),
                  Untitled({"yellow"}, FALSE, "", 1),
                  Untitled({"red", "yellow"}, FALSE, "", 1) >>,
     heads |-> 1, sortable |-> TRUE, menu |-> FALSE]
\* Three items, the second without a title.
PartTitles ==
    [items |-> << Item(Banana, {"yellow"}, FALSE, "", 0),
                  Untitled({"red"}, FALSE, "", 0),
                  Item(Apple, {"red"}, FALSE, "", 0) >>,
     heads |-> 0, sortable |-> TRUE, menu |-> FALSE]
\* Three items without tags, not sortable, a custom menu.
Plain ==
    [items |-> << Item(Banana, {}, FALSE, "berry", 0),
                  Item(Apple, {}, TRUE, "pome", 0),
                  Item(Apricot, {}, FALSE, "stone", 0) >>,
     heads |-> 0, sortable |-> FALSE, menu |-> TRUE]

\* The containers a page may hold.
Containers == {Fruit, Grouped, NoTitles, PartTitles, Plain}

\* What may be typed into the title filter.
Queries == { <<>>, <<"b", "a", "n">>, <<"a", "n">> }

Ids(e) == 1..Len(e.items)
Heads(e) == 1..e.heads

\* --------------------------------------------------------------- set up

\* setUpCustomFilters, lines 159-187: the menu of the markup, whose first
\* entry has the value "*", gets an option per value of data-kind.
setUpCustomFilters(e) ==
    IF e.menu
    THEN {"*"} \cup {e.items[i].kind : i \in {j \in Ids(e) : e.items[j].kind # ""}}
    ELSE {}

\* Lines 205-210: the loop over the items, left at the first with a group.
RECURSIVE GroupOption(_)
GroupOption(items) ==
    IF items = <<>> THEN <<>>
    ELSE IF Head(items).group THEN <<"groups">>
    ELSE GroupOption(Tail(items))

SetUpSortMenuFromTwo(e) ==
    IF Len(e.items) < 2 THEN <<>>
    ELSE <<"source", "alpha">> \o GroupOption(e.items)

\* setUpSortMenu, lines 197-213: the options of the sort menu, in order
\* (<<>>: no menu).
setUpSortMenu(e) ==
    IF Len(e.items) <= 2 THEN <<>>
    ELSE <<"source", "alpha">> \o GroupOption(e.items)

\* setUpTagFilter, lines 216-251: "*" and every tag of an item, when some
\* item has a tag ({}: no menu).
setUpTagFilter(e) ==
    LET allTags == UNION {e.items[i].tags : i \in Ids(e)}
    IN IF allTags # {} THEN {"*"} \cup allTags ELSE {}

\* setUpFilter, lines 118-156: the controls the container gets.
setUpFilter(e) ==
    [title |-> \E i \in Ids(e) : e.items[i].hasTitle,
     sort |-> IF e.sortable THEN setUpSortMenu(e) ELSE <<>>,
     tags |-> setUpTagFilter(e),
     menu |-> setUpCustomFilters(e)]

\* ------------------------------------------------------------ recompute

\* getAttribute("data-title") as the argument of localeCompare: null is
\* turned into the string "null".
TitleArg(it) == IF it.hasTitle THEN it.title ELSE <<"n", "u", "l", "l">>

\* cmpAttribute("data-title")(a, b), lines 2-8, for an a that has a title:
\* for an a without one, aa is null and aa.localeCompare throws a TypeError.
cmpAttribute(a, b) == localeCompare(a.title, TitleArg(b))

\* items.sort(cmpAttribute("data-title")) throws when the comparator gets an
\* untitled item as its first argument.  Which pairs a sort compares, and in
\* which order, is left to the engine: it happens for sure when no item has
\* a title, and otherwise when the engine does so (sortArgNull).
SortThrows(e) ==
    \/ \A i \in Ids(e) : ~e.items[i].hasTitle
    \/ sortArgNull /\ \E i \in Ids(e) : ~e.items[i].hasTitle

\* The comparator as the sort sees it when it does not throw: an untitled
\* item was only ever the second argument, read as "null".
Compare(a, b) ==
    IF a.hasTitle THEN cmpAttribute(a, b)
    ELSE IF b.hasTitle THEN 0 - cmpAttribute(b, a)
    ELSE 0

\* Array.prototype.sort as a stable insertion sort of item numbers: Insert
\* puts item i behind every item of s that does not compare greater.
RECURSIVE Insert(_, _, _)
Insert(e, s, i) ==
    IF s = <<>> THEN <<i>>
    ELSE IF Compare(e.items[i], e.items[Head(s)]) < 0 THEN <<i>> \o s
    ELSE <<Head(s)>> \o Insert(e, Tail(s), i)

RECURSIVE SortUpTo(_, _)
SortUpTo(e, n) == IF n = 0 THEN <<>> ELSE Insert(e, SortUpTo(e, n - 1), n)

SortDocumentOrder(e) == [i \in Ids(e) |-> i]
\* items.sort(cmpAttribute("data-title")), line 50, on orig.find(".item"):
\* the items (by their number in document order) in sorted order.
Sort(e) == SortUpTo(e, Len(e.items))

\* The selector of lines 66-98 applied to an item: tag, value and text are
\* the constraints in force ("*", "*" and <<>>: none).
Matches(it, tag, value, text) ==
    /\ tag # "*" => tag \in it.tags
    /\ value # "*" => it.kind = value
    /\ text # <<>> => (it.hasTitle /\ Contains(it.title, text))

AllShown(S) == [i \in S |-> TRUE]

\* title.val(""), lines 74 and 89: the text of the title filter once the
\* menus have been read, `chosen` telling that a tag or a value is.  On a
\* container without title filter val("") has nothing to clear.
ClearedText(clear, chosen, typed) ==
    IF clear /\ chosen /\ controls.title THEN <<>> ELSE typed

\* What is displayed, as one value.
View == [origShown |-> origShown, sorted |-> sorted, sortedShown |-> sortedShown,
         itemShown |-> itemShown, cloneShown |-> cloneShown,
         headShown |-> headShown]

\* updateFilter(event, e, clear), lines 23-115, run on the display v with the
\* controls at sortedby, tag, value and typed: the display and the text of
\* the title filter it leaves, and whether it threw.  A control the
\* container does not have takes no part (its each() has nothing to visit).
updateFilter(v, clear, sortedby, tag, value, typed) ==
    LET e == container
        hasSort == controls.sort # <<>>
        bySource == hasSort /\ sortedby = "source"
        alpha == hasSort /\ sortedby = "alpha"
        build == alpha /\ v.sorted = <<>>
        \* lines 32-59
        orig1 == IF alpha THEN FALSE ELSE v.origShown
        sortedShown1 == IF bySource THEN FALSE ELSE v.sortedShown
        \* lines 66-95
        tagOn == controls.tags # {} /\ tag # "*"
        menuOn == controls.menu # {} /\ value # "*"
        text1 == ClearedText(clear, tagOn \/ menuOn, typed)
        text == toLowerCase(text1)
        selector == tagOn \/ menuOn \/ text # <<>>
        match == [i \in Ids(e) |->
                    Matches(e.items[i], IF tagOn THEN tag ELSE "*",
                            IF menuOn THEN value ELSE "*", text)]
        \* lines 62-64: source.show(), and its headings and items
        shown == [v EXCEPT !.origShown = IF alpha THEN orig1 ELSE TRUE,
                           !.sorted = IF build THEN Sort(e) ELSE v.sorted,
                           !.sortedShown = IF alpha THEN TRUE ELSE sortedShown1,
                           !.itemShown = IF alpha THEN v.itemShown
                                         ELSE AllShown(Ids(e)),
                           !.headShown = IF alpha THEN v.headShown
                                         ELSE AllShown(Heads(e)),
                           !.cloneShown = IF alpha THEN AllShown(Ids(e))
                                          ELSE v.cloneShown]
        \* lines 100-114: hide what the selector does not match, then the
        \* headings none of whose items is left visible
        hidden == [shown EXCEPT
                     !.itemShown = IF alpha THEN v.itemShown ELSE match,
                     !.cloneShown = IF alpha THEN match ELSE v.cloneShown,
                     !.headShown =
                         IF alpha THEN v.headShown
                         ELSE [h \in Heads(e) |->
                                 \E i \in Ids(e) : e.items[i].head = h /\ match[i]]]
    IN IF build /\ SortThrows(e)
       THEN \* TypeError at line 6, out of line 50: the original is hidden
            \* and no holder is appended
            [view |-> [v EXCEPT !.origShown = orig1], title |-> typed,
             thrown |-> TRUE, built |-> FALSE]
       ELSE IF ~controls.title
       THEN \* TypeError at line 95: title.val() is undefined
            [view |-> shown, title |-> typed, thrown |-> TRUE, built |-> build]
       ELSE [view |-> IF selector THEN hidden ELSE shown, title |-> text1,
             thrown |-> FALSE, built |-> build]

\* A handler has run updateFilter with result r.
Display(r, event, clear) ==
    /\ origShown' = r.view.origShown
    /\ sorted' = r.view.sorted
    /\ sortedShown' = r.view.sortedShown
    /\ itemShown' = r.view.itemShown
    /\ cloneShown' = r.view.cloneShown
    /\ headShown' = r.view.headShown
    /\ titleval' = r.title
    /\ builds' = IF r.built THEN builds + 1 ELSE builds
    /\ fev' = [type |-> event, clear |-> clear, thrown |-> r.thrown]

\* ------------------------------------------------------- initial state

\* A page without a search box: the search variables stay as constructed.
SearchIdle == SearchInit /\ ~noPopup /\ textbox = ""

\* State after $(document).ready, lines 253-258: setUpFilter has given the
\* container its controls; nothing has been recomputed, so everything is
\* displayed as the markup has it.
FilterInit ==
    /\ SearchIdle
    /\ EditorIdle
    /\ container \in Containers
    /\ controls = setUpFilter(container)
    /\ titleval = <<>>
    /\ sortval = "source"
    /\ tagval = "*"
    /\ menuval = "*"
    /\ origShown = TRUE
    /\ sorted = <<>>
    /\ sortedShown = FALSE
    /\ itemShown = AllShown(Ids(container))
    /\ cloneShown = [i \in Ids(container) |-> FALSE]
    /\ headShown = AllShown(Heads(container))
    /\ sortArgNull \in BOOLEAN
    /\ fev = [type |-> "init"]
    /\ builds = 0

\* -------------------------------------------------------------- actions

\* change handler of the tag menu, line 248, once the menu is at `tag`.
TagChange(tag) ==
    /\ tag \in controls.tags
    /\ tagval' = tag
    /\ Display(updateFilter(View, TRUE, sortval, tag, menuval, titleval), "tag", TRUE)
    /\ UNCHANGED <<container, controls, sortval, menuval, sortArgNull, svars, evars>>

\* change handler of the custom menu, line 185, once the menu is at `value`.
MenuChange(value) ==
    /\ value \in controls.menu
    /\ menuval' = value
    /\ Display(updateFilter(View, TRUE, sortval, tagval, value, titleval), "menu", TRUE)
    /\ UNCHANGED <<container, controls, sortval, tagval, sortArgNull, svars, evars>>

\* keyup handler of the title filter, line 192, once the box holds `typed`
\* (which is what it held before, for a key that types nothing).
TitleKeyup(typed) ==
    /\ controls.title
    /\ Display(updateFilter(View, FALSE, sortval, tagval, menuval, typed), "keyup", FALSE)
    /\ UNCHANGED <<container, controls, sortval, tagval, menuval, sortArgNull,
                   svars, evars>>

\* change handler of the sort menu, line 211, once the menu is at `sortedby`.
SortChange(sortedby) ==
    /\ \E k \in DOMAIN controls.sort : controls.sort[k] = sortedby
    /\ sortval' = sortedby
    /\ Display(updateFilter(View, FALSE, sortedby, tagval, menuval, titleval), "sort", FALSE)
    /\ UNCHANGED <<container, controls, tagval, menuval, sortArgNull, svars, evars>>

FilterNext ==
    \/ \E tag \in {"*", "fruit", "red", "yellow"} : TagChange(tag)
    \/ \E value \in {"*", "berry", "pome", "stone"} : MenuChange(value)
    \/ \E typed \in Queries : TitleKeyup(typed)
    \/ \E sortedby \in {"source", "alpha", "groups"} : SortChange(sortedby)

FilterSpec == FilterInit /\ [][FilterNext]_vars

\* ================================================================ Part 3
\* The editor shell.  The title bar is taken to be wide enough for the
\* tabs, so hideTab and showTab (lines 80-150) never move a tab to the
\* hidden list: hiddenTabSize stays empty.

\* ------------------------------------------------------------ previewer

\* What cm.getValue() can return: nothing, or some text.
Values == {"", "text"}

\* The previewer object and its requests, as one record; `out` tells what
\* the last call of preview did.
Previewer ==
    [previewing |-> previewing, needsPreview |-> needsPreview,
     previews |-> previews, out |-> "none"]

\* previewer.preview(cm), lines 358-399.  `cm` is undefined, or the value
\* cm.getValue() returns; with undefined, line 367 throws a TypeError
\* after lines 364-365 have run.
preview(pv, cm) ==
    IF pv.previewing
    THEN [pv EXCEPT !.needsPreview = TRUE, !.out = "queued"]
    ELSE IF cm = undefined
    THEN [pv EXCEPT !.previewing = TRUE, !.needsPreview = FALSE, !.out = "thrown"]
    ELSE IF cm = ""
    THEN [pv EXCEPT !.previewing = FALSE, !.needsPreview = FALSE, !.out = "cleared"]
    ELSE [previewing |-> TRUE, needsPreview |-> FALSE,
          previews |-> pv.previews + 1, out |-> "sent"]

\* The success callback of the request, lines 381-394, for a request that
\* has left the wire; `val` is the value of the instance the call was for.
success(pv, val) ==
    LET a == [pv EXCEPT !.previewing = FALSE, !.previews = @ - 1]
    IN  IF a.needsPreview
        THEN preview([a EXCEPT !.needsPreview = FALSE], val)
        ELSE a

\* The complete callback of the request, lines 395-397.
complete(pv) == [pv EXCEPT !.previewing = FALSE]

\* The argument of preview: the current instance's value, or undefined.
Arg(cm, val) == IF cm = undefined THEN undefined ELSE val

\* if (!previewPanelHidden) previewer.preview(codeMirror), as at lines
\* 676-678.
previewIfShown(cm, val) ==
    IF previewPanelHidden THEN Previewer ELSE preview(Previewer, Arg(cm, val))

\* Assignment of the previewer's state; a request beyond MaxPreviews is
\* not modelled.
SetPreviewer(pv) ==
    /\ pv.previews <= MaxPreviews
    /\ previewing' = pv.previewing
    /\ needsPreview' = pv.needsPreview
    /\ previews' = pv.previews

\* The response of a /_preview/ request arrives with a success status:
\* jQuery runs the success callback, then the complete callback.
PreviewSuccess(val) ==
    /\ previews > 0
    /\ LET pv == success(Previewer, val)
       IN  /\ SetPreviewer(complete(pv))
           /\ eev' = IF needsPreview THEN pv.out ELSE "none"
    /\ UNCHANGED <<previewPanelHidden, activeFile, modifiedFile, cmInstanceList,
                   activeTabPos, codeMirror, tabs, loading, svars, fvars>>

\* The request fails: there is no error callback, jQuery runs the complete
\* callback only.
PreviewFailure ==
    /\ previews > 0
    /\ SetPreviewer(complete([Previewer EXCEPT !.previews = @ - 1]))
    /\ eev' = "none"
    /\ UNCHANGED <<previewPanelHidden, activeFile, modifiedFile, cmInstanceList,
                   activeTabPos, codeMirror, tabs, loading, svars, fvars>>

\* Click on View > Preview, lines 1005-1025.
TogglePreview(val) ==
    /\ previewPanelHidden' = ~previewPanelHidden
    /\ LET pv == IF previewPanelHidden
                 THEN preview(Previewer, Arg(codeMirror, val))
                 ELSE Previewer
       IN  /\ SetPreviewer(pv)
           /\ eev' = "none"
    /\ UNCHANGED <<activeFile, modifiedFile, cmInstanceList, activeTabPos,
                   codeMirror, tabs, loading, svars, fvars>>

\* ----------------------------------------------------------------- tabs

\* a[i] of a JavaScript array: defined for 0 <= i < a.length.
InRange(a, i) == i \in 0..(Len(a) - 1)
At(a, i) == IF InRange(a, i) THEN a[i + 1] ELSE undefined

\* a.splice(i, 1) for i >= 0.
Splice(a, i) ==
    IF InRange(a, i) THEN SubSeq(a, 1, i) \o SubSeq(a, i + 2, Len(a)) ELSE a

\* The loop of lines 596-602, and of lines 1318-1326: the first index of
\* `path` in the array, or `none`.
RECURSIVE IndexFrom(_, _, _, _)
IndexFrom(a, path, i, none) ==
    IF i >= Len(a) THEN none
    ELSE IF a[i + 1] = path THEN i
    ELSE IndexFrom(a, path, i + 1, none)

\* A tab of the title bar: its index attribute (parseInt and the attribute
\* selector agree on the numbers here), the text of its link, and whether
\* it has the class activeTab.
Tab(index, path, active) == [index |-> index, path |-> path, active |-> active]

\* $(".activeTab").removeClass("activeTab"), then addClass on the set S of
\* tabs (positions in document order).
Activate(t, S) == [k \in DOMAIN t |-> [t[k] EXCEPT !.active = (k \in S)]]

\* $(".titleBar li[index='" + i + "']")
WithIndex(t, i) == {k \in DOMAIN t : t[k].index = i}

\* parentLi.prev() and parentLi.next()
Prev(t, S) == {k - 1 : k \in S} \cap DOMAIN t
Succ(t, S) == {k + 1 : k \in S} \cap DOMAIN t

\* parentLi.remove()
RECURSIVE Remove(_, _)
Remove(t, S) ==
    IF t = <<>> THEN <<>>
    ELSE LET rest == Remove(SubSeq(t, 1, Len(t) - 1), S)
         IN  IF Len(t) \in S THEN rest ELSE Append(rest, t[Len(t)])

\* The loop of lines 820-822 from i on: every li whose text contains
\* modifiedFile[i].path gets the index i - 1.
RECURSIVE Renumber(_, _)
Renumber(t, i) ==
    IF i >= Len(modifiedFile) THEN t
    ELSE Renumber([k \in DOMAIN t |->
                      IF Contains(t[k].path, modifiedFile[i + 1])
                      THEN [t[k] EXCEPT !.index = i - 1]
                      ELSE t[k]],
                  i + 1)

\* Number of loadFile requests in flight.
RECURSIVE Sum(_, _)
Sum(f, S) == IF S = {} THEN 0 ELSE LET x == CHOOSE x \in S : TRUE
                                  IN  f[x] + Sum(f, S \ {x})
Loads == Sum(loading, Paths)

\* There is room in the title bar for the tabs of the loads in flight and
\* one more.
Room ==
    /\ Loads < MaxLoads
    /\ Len(tabs) + Loads < MaxTabs
    /\ Len(activeFile) + Loads < MaxTabs
    /\ Len(cmInstanceList) + Loads < MaxTabs

\* The tab variables a handler leaves as they are.
Bookkeeping == <<activeFile, modifiedFile, cmInstanceList, activeTabPos, tabs>>

\* keyup in the open editor, lines 1475-1483, with checkForChanges, lines
\* 851-870; `val` is the value the editor holds.  setTimeout is handed the
\* result of preview, so preview runs at once.
Keyup(val) ==
    LET n == Len(activeFile)
        thrown == IF n = 0
                  THEN codeMirror = undefined \/ val = ""
                  ELSE ~InRange(activeFile, activeTabPos) \/ codeMirror = undefined
        pv == IF thrown THEN Previewer
              ELSE previewIfShown(codeMirror, IF n = 0 THEN "" ELSE val)
    IN  /\ SetPreviewer(pv)
        /\ eev' = "none"
        /\ UNCHANGED <<previewPanelHidden, Bookkeeping, codeMirror, loading,
                       svars, fvars>>

\* loadFileHelper(target), lines 566-695, up to the request of loadFile or
\* to the end of the branch for a file that is open.  A file is requested
\* while there is Room, so that every load in flight can be answered.
Open(path, val) ==
    LET position == IndexFrom(modifiedFile, path, 0, -1)
    IN  IF position < 0
        THEN /\ Room
             /\ loading' = [loading EXCEPT ![path] = @ + 1]
             /\ eev' = "none"
             /\ UNCHANGED <<previewing, needsPreview, previews, previewPanelHidden,
                            Bookkeeping, codeMirror, svars, fvars>>
        ELSE LET cm == At(cmInstanceList, position)
                 pv == previewIfShown(cm, val)
             IN  /\ activeTabPos' = position
                 /\ tabs' = Activate(tabs, WithIndex(tabs, position))
                 /\ codeMirror' = cm
                 /\ SetPreviewer(pv)
                 /\ eev' = "none"
                 /\ UNCHANGED <<previewPanelHidden, activeFile, modifiedFile,
                                cmInstanceList, loading, svars, fvars>>

\* The callback of loadFile with the file's data, lines 604-679.  A new
\* instance is pushed unless the tab is the first; with an undefined
\* current instance line 635 throws (before the pushes of lines 655-664)
\* or line 665 does (after them).
LoadSuccess(path, data) ==
    LET at == Len(activeFile)
        push == at # 0
        cml == IF push THEN Append(cmInstanceList, "cm") ELSE cmInstanceList
        cm == IF push THEN At(cml, at) ELSE codeMirror
        thrown == cm = undefined
        pv == IF thrown THEN Previewer ELSE previewIfShown(cm, data)
    IN  /\ loading[path] > 0
        /\ loading' = [loading EXCEPT ![path] = @ - 1]
        /\ tabs' = Append(Activate(tabs, {}), Tab(at, path, TRUE))
        /\ activeTabPos' = at
        /\ cmInstanceList' = cml
        /\ codeMirror' = cm
        /\ IF thrown /\ push
           THEN UNCHANGED <<activeFile, modifiedFile>>
           ELSE /\ activeFile' = Append(activeFile, path)
                /\ modifiedFile' = Append(modifiedFile, path)
        /\ SetPreviewer(pv)
        /\ eev' = "none"
        /\ UNCHANGED <<previewPanelHidden, svars, fvars>>

\* The error callback of loadFile, lines 177-180, and line 606.
LoadError(path) ==
    /\ loading[path] > 0
    /\ loading' = [loading EXCEPT ![path] = @ - 1]
    /\ eev' = "none"
    /\ UNCHANGED <<previewing, needsPreview, previews, previewPanelHidden,
                   Bookkeeping, codeMirror, svars, fvars>>

\* Click on the link of the k-th tab, lines 1393-1415.
TabClick(k, val) ==
    /\ k \in DOMAIN tabs
    /\ ~tabs[k].active
    /\ LET position == tabs[k].index
           cm == At(cmInstanceList, position)
           pv == previewIfShown(cm, val)
       IN  /\ tabs' = Activate(tabs, {k})
           /\ activeTabPos' = position
           /\ codeMirror' = cm
           /\ SetPreviewer(pv)
           /\ eev' = "none"
    /\ UNCHANGED <<previewPanelHidden, activeFile, modifiedFile, cmInstanceList,
                   loading, svars, fvars>>

\* deleteTab(position, parentLi), lines 777-848, up to the call of preview:
\* the values of the globals and of the title bar after it, whether line
\* 833 or line 841 threw, and the value of the current instance.
deleteTab(position, parentLi, val) ==
    LET n == Len(modifiedFile)
        closing == position = activeTabPos
        rightmost == position = n - 1
        atp1 == IF ~closing THEN activeTabPos
                ELSE IF rightmost THEN activeTabPos - 1 ELSE activeTabPos + 1
        hasNew == closing /\ (~rightmost \/ position # 0)
        newActiveTab == IF rightmost THEN Prev(tabs, parentLi) ELSE Succ(tabs, parentLi)
        cm == IF hasNew THEN At(cmInstanceList, atp1) ELSE codeMirror
        tabs1 == IF hasNew THEN Activate(tabs, newActiveTab) ELSE tabs
        atp2 == IF position < atp1 THEN atp1 - 1 ELSE atp1
        tabs2 == Renumber(tabs1, position + 1)
        af == Splice(activeFile, position)
        many == Len(cmInstanceList) # 1
    IN  [activeTabPos |-> atp2,
         codeMirror |-> cm,
         tabs |-> Remove(tabs2, parentLi),
         activeFile |-> af,
         modifiedFile |-> Splice(modifiedFile, position),
         cmInstanceList |-> IF many THEN Splice(cmInstanceList, position)
                            ELSE cmInstanceList,
         thrown |-> IF many THEN ~InRange(af, atp2) ELSE cm = undefined,
         val |-> IF many THEN val ELSE ""]

\* A handler that ends with deleteTab: the assignment of its result, and
\* the call of preview of lines 845-847 unless deleteTab threw before it.
Deleted(d) ==
    LET pv == IF d.thrown THEN Previewer ELSE previewIfShown(d.codeMirror, d.val)
    IN  /\ activeTabPos' = d.activeTabPos
        /\ codeMirror' = d.codeMirror
        /\ tabs' = d.tabs
        /\ activeFile' = d.activeFile
        /\ modifiedFile' = d.modifiedFile
        /\ cmInstanceList' = d.cmInstanceList
        /\ SetPreviewer(pv)
        /\ eev' = "none"
        /\ UNCHANGED <<previewPanelHidden, loading, svars, fvars>>

\* Click on the x of the k-th tab, lines 1418-1435, the discard of changes
\* confirmed where it is asked for.  Line 1424 throws when the index
\* attribute names no entry of activeFile.
CloseClick(k, val) ==
    /\ k \in DOMAIN tabs
    /\ LET position == tabs[k].index
       IN  IF InRange(activeFile, position)
           THEN Deleted(deleteTab(position, {k}, val))
           ELSE /\ eev' = "none"
                /\ UNCHANGED <<previewing, needsPreview, previews,
                               previewPanelHidden, Bookkeeping, codeMirror,
                               loading, svars, fvars>>

\* Delete of the file `path` confirmed in the side bar, lines 1309-1329:
\* i is the index of the path in activeFile, or activeFile.length when the
\* file is not open, and deleteTab runs in both cases.
DeleteFile(path, val) ==
    LET i == IndexFrom(activeFile, path, 0, Len(activeFile))
    IN  Deleted(deleteTab(i, WithIndex(tabs, i), val))

\* Click on "close all tabs" of the hidden list, lines 1441-1461.
CloseAll ==
    LET pv == previewIfShown("cm", "")
    IN  /\ modifiedFile' = <<>>
        /\ activeFile' = <<>>
        /\ tabs' = <<>>
        /\ activeTabPos' = -1
        /\ cmInstanceList' = SubSeq(cmInstanceList, 1, 1)
        /\ codeMirror' = At(cmInstanceList, 0)
        /\ SetPreviewer(pv)
        /\ eev' = "none"
        /\ UNCHANGED <<previewPanelHidden, loading, svars, fvars>>

\* ------------------------------------------------------------- the editor

\* The page of the editor: no search box and no filtered container.
EditorInit == SearchIdle /\ FilterIdle /\ EditorIdle

\* What the network does: a request in flight is answered.
PreviewResponse ==
    \/ \E val \in Values : PreviewSuccess(val)
    \/ PreviewFailure

LoadResponse ==
    \/ \E path \in Paths, data \in Values : LoadSuccess(path, data)
    \/ \E path \in Paths : LoadError(path)

\* What the user does.
UserAction ==
    \/ \E val \in Values : TogglePreview(val)
    \/ \E val \in Values : Keyup(val)
    \/ \E path \in Paths, val \in Values : Open(path, val)
    \/ \E k \in 1..MaxTabs, val \in Values : TabClick(k, val)
    \/ \E k \in 1..MaxTabs, val \in Values : CloseClick(k, val)
    \/ \E path \in Paths, val \in Values : DeleteFile(path, val)
    \/ CloseAll

EditorNext == PreviewResponse \/ LoadResponse \/ UserAction

EditorSpec == EditorInit /\ [][EditorNext]_vars

\* The network answers every request: each request in flight gets its
\* response, whatever the user does.
EditorLiveSpec ==
    EditorSpec /\ WF_vars(PreviewResponse) /\ WF_vars(LoadResponse)

\* ------------------------------------------------------------ properties

IsSuccess(e) == e.type = "success"
IsKey(e, keycode) == e.type = "key" /\ e.code = keycode

\* The requests a step sends.
Sent == inflight' \ inflight

\* C1: last writer wins.  A response carrying sequence number s1 that
\* arrives while the results shown carry a larger number s2 is discarded:
\* the results, the result count and the selection index stay those of s2;
\* and the sequence number of the results shown never decreases.
C1_LastWriterWins ==
    [][ /\ ( /\ IsSuccess(ev') /\ ev'.seq # NaN
             /\ resultsdiv.filled /\ resultsdiv.seq # NaN
             /\ ev'.seq < resultsdiv.seq )
           => UNCHANGED <<resultsdiv, resultcount, selected>>
        /\ (resultsdiv.seq # NaN /\ resultsdiv'.seq # NaN)
           => resultsdiv'.seq >= resultsdiv.seq ]_vars

\* A response for request 0 has been discarded after the response for
\* request 1 was rendered.
C1_Witness ==
    /\ IsSuccess(ev) /\ ev.seq # NaN
    /\ resultsdiv.filled /\ resultsdiv.seq # NaN
    /\ ev.seq < resultsdiv.seq
    /\ resultcount = Len(resultsdiv.rows)

\* C2: apply condition.  A response carrying a sequence number is applied
\* to the results area iff that number is >= the session's current sequence
\* number (so the response to a superseded request is dropped even when
\* nothing newer has been rendered), and a request leaves the set of
\* requests in flight only when its own callback runs.
C2_ApplyCondition ==
    [][ /\ (IsSuccess(ev') /\ ev'.seq # NaN)
           => IF ev'.seq >= sequence
              THEN /\ resultsdiv'.filled
                   /\ resultsdiv'.seq = ev'.seq
                   /\ resultcount' = Len(resultsdiv'.rows)
                   /\ selected' = 0
              ELSE UNCHANGED <<resultsdiv, resultcount, selected, cssSel>>
        /\ (inflight \ inflight' # {})
           => /\ ev'.type \in {"success", "error"}
              /\ Cardinality(inflight \ inflight') = 1 ]_vars

\* The response to a superseded request has been dropped while no response
\* has been rendered yet, the newer request still being in flight.
C2_Witness ==
    /\ IsSuccess(ev) /\ ev.seq # NaN /\ ~ev.applied
    /\ ~resultsdiv.filled
    /\ \E r \in inflight : r.seq > ev.seq

\* C3: a response fragment whose sequence number is missing or unparseable
\* is never applied: results, result count and selection index are left
\* unchanged.
C3_MalformedNeverApplied ==
    [][ (IsSuccess(ev') /\ ev'.seq = NaN)
        => UNCHANGED <<resultsdiv, resultcount, selected>> ]_vars

\* C4: at most one debounce timer is pending per search box.
C4_SingleSlotDebounce == pending <= 1

\* C5: debounce coalescing, stated for the runs that have something to
\* send.  When the last timer of a run of ordinary keystrokes expires, the
\* run has dispatched at most one request; it has dispatched exactly one
\* unless the text then equals the text last dispatched before the run; and
\* a request dispatched by that expiry carries the text then present.  (The
\* sequence number advances by the number of requests dispatched.)
C5_DebounceCoalescing ==
    [][ (run = 1 /\ ev'.type = "timeout" /\ ev'.last)
        => LET total == runsent + (sequence' - sequence)
           IN /\ total <= 1
              /\ (total = 0) => (textbox = lastqstring)
              /\ \A r \in Sent : r.q = textbox ]_vars

\* C6: sequence monotonicity.  The sequence number changes only when a
\* request is dispatched, and then grows by exactly 1; every dispatched
\* request carries the new value, which is larger than the number of every
\* request still in flight; no request in flight is ahead of the session.
C6_SequenceMonotone ==
    [][ /\ (sequence' # sequence)
           => (sequence' = sequence + 1 /\ Sent # {})
        /\ (Sent # {})
           => /\ sequence' = sequence + 1
              /\ \A r \in Sent :
                    /\ r.seq = sequence'
                    /\ \A o \in inflight : o.seq < r.seq
              /\ Cardinality(Sent) = 1
        /\ \A r \in inflight : r.seq <= sequence ]_vars

\* Two requests of the session are in flight, dispatched one after the other.
C6_Witness ==
    /\ sequence >= 1
    /\ \E r1, r2 \in inflight : r2.seq = r1.seq + 1 /\ r2.seq = sequence

\* C7: dispatch condition.  An update run by focus or by a timer expiry
\* dispatches a request iff the text differs from the text dispatched last;
\* the update run at initialization (inline mode) dispatches; narrowing into
\* a category (a click on a category, a click on or Enter at a "more" row)
\* always dispatches and records the text as dispatched last.
C7_DispatchCondition ==
    /\ IF noPopup
       THEN sequence = 0 /\ lastqstring = textbox /\ Cardinality(inflight) = 1
       ELSE sequence = -1 /\ lastqstring = null /\ inflight = {}
    /\ [][ /\ (ev'.type \in {"focus", "timeout"})
              => /\ (Sent # {}) <=> (textbox # lastqstring)
                 /\ \A r \in Sent : r.q = textbox
           /\ (ev'.type = "cat")
              => (Sent # {} /\ lastqstring' = textbox
                  /\ \A r \in Sent : r.q = textbox)
           /\ \A i \in 0..(resultcount - 1) :
                 ( /\ resultsdiv.rows[i + 1].kind = "more"
                   /\ \/ Click(i)
                      \/ (cssSel = i /\ keydown(KeyEnter, textbox)) )
                 => (Sent # {} /\ lastqstring' = textbox
                     /\ \A r \in Sent : r.q = textbox) ]_vars

\* A click on a category has dispatched a request although the text was the
\* text dispatched last.
C7_Witness ==
    /\ ev.type = "cat" /\ ev.forced
    /\ \E r \in inflight : r.seq = sequence /\ r.q = textbox
    /\ lastqstring = textbox

\* C8: selection wrap.  With N > 0 results Down selects (index + 1) mod N
\* and Up selects (index - 1) mod N, and the selection index lies in [0, N).
C8_SelectionWrap ==
    /\ [](resultcount > 0 => selected \in 0..(resultcount - 1))
    /\ [][ /\ (IsKey(ev', KeyDown) /\ resultcount > 0)
              => selected' = (selected + 1) % resultcount
           /\ (IsKey(ev', KeyUp) /\ resultcount > 0)
              => selected' = (selected + resultcount - 1) % resultcount ]_vars

\* Down has wrapped from the last of three rows to the first.
C8_Witness ==
    /\ IsKey(ev, KeyDown)
    /\ resultcount = 3
    /\ selected = 0
    /\ cssSel = 0

\* C9: a failed request changes nothing but the set of requests in flight:
\* results, result count, selection, category and sequence number stay, no
\* timer is set and no request is sent.
C9_FailureUnchanged ==
    [][ (ev'.type = "error")
        => /\ UNCHANGED <<resultsdiv, resultcount, selected, cssSel, catname,
                          sequence, lastqstring, timer, pending, textbox,
                          visible, location>>
           /\ Sent = {} ]_vars

\* A request has failed while results of an earlier response are shown.
C9_Witness ==
    /\ ev.type = "error"
    /\ resultsdiv.filled
    /\ resultcount > 0

\* C10: after a request for the current text has failed, the next focus
\* event dispatches a new request for that text.
C10_RecoveryAfterFailure ==
    [][ (ev.type = "error" /\ ev.q = textbox /\ ev'.type = "focus")
        => (Sent # {} /\ \A r \in Sent : r.q = textbox) ]_vars

IsArrow(e) == IsKey(e, KeyUp) \/ IsKey(e, KeyDown)

C21_ArrowsDoNotQuery ==
    [][ /\ IsArrow(ev')
           => (Sent = {} /\ UNCHANGED <<sequence, lastqstring, catname, textbox>>)
        /\ (IsArrow(ev) /\ pending = 1 /\ ev'.type = "timeout")
           => (Sent = {} /\ UNCHANGED <<sequence, lastqstring, catname>>) ]_vars

\* C22: the selection index is never negative and never greater than the
\* result count, also while the result count is 0.
C22_SelectionBounds == selected >= 0 /\ selected <= resultcount

\* C23: a response that is applied becomes the content of the results area,
\* the result count is the number of its rows and the selection index is 0;
\* hovering a row sets the selection index to the position of that row.
C23_ApplyResponse ==
    [][ /\ (IsSuccess(ev') /\ ev'.applied)
           => \A r \in inflight \ inflight' : \A html \in Fragments(r) :
                 (ev'.seq = Number(html.sequence) /\ fillResults(html))
                 => /\ resultsdiv'.filled
                    /\ resultsdiv'.rows = html.rows
                    /\ resultcount' = Len(html.rows)
                    /\ selected' = 0
                    /\ cssSel' = IF html.rows = <<>> THEN -1 ELSE 0
        /\ (ev'.type = "mouseover")
           => (selected' = ev'.hit /\ cssSel' = ev'.hit
               /\ UNCHANGED <<resultsdiv, resultcount>>) ]_vars

\* The third row of an applied response has been hovered.
C23_Witness ==
    /\ ev.type = "mouseover" /\ ev.hit = 2
    /\ resultsdiv.filled
    /\ resultcount = 3
    /\ selected = 2

ShownItems(v) ==
    {i \in Ids(container) :
        /\ v.origShown /\ v.itemShown[i]
        /\ container.items[i].head # 0 => v.headShown[container.items[i].head]}
ShownClones(v) ==
    {i \in Ids(container) : v.sorted # <<>> /\ v.sortedShown /\ v.cloneShown[i]}
ShownHeads(v) == {h \in Heads(container) : v.origShown /\ v.headShown[h]}
Visible(v) ==
    [orig |-> v.origShown, sortedview |-> (v.sorted # <<>> /\ v.sortedShown),
     items |-> ShownItems(v), clones |-> ShownClones(v), heads |-> ShownHeads(v)]

\* The sort menu is at "alpha": the sorted view is the active one.
Alpha == controls.sort # <<>> /\ sortval = "alpha"
\* The items visible in the active view.
ActiveShown == IF Alpha THEN ShownClones(View) ELSE ShownItems(View)

\* The structured constraints selected, and the text constraint.
SatisfiesMenus(it) ==
    /\ (controls.tags # {} /\ tagval # "*") => tagval \in it.tags
    /\ (controls.menu # {} /\ menuval # "*") => it.kind = menuval
SatisfiesText(it) ==
    titleval # <<>>
        => (it.hasTitle /\ Contains(toLowerCase(it.title), toLowerCase(titleval)))

Recomputed == fev.type # "init"

\* C12: after every recompute, whatever controls the container has, an item
\* of the active view is visible iff it satisfies every selected constraint:
\* its tags contain the selected tag, its custom attribute equals the
\* selected value, and its title contains the text query whatever the case;
\* "*" and the empty text constrain nothing.
C12_VisibleIffSatisfies ==
    Recomputed
        => ActiveShown = {i \in Ids(container) :
                             /\ SatisfiesMenus(container.items[i])
                             /\ SatisfiesText(container.items[i])}

\* C13: after every recompute, also one with an empty predicate, every
\* heading of the active view, also one without items, is visible iff at
\* least one item beneath it is visible.
C13_HeadingIffItem ==
    (Recomputed /\ ~Alpha)
        => \A h \in Heads(container) :
              (h \in ShownHeads(View))
                  <=> (\E i \in ShownItems(View) : container.items[i].head = h)

\* C14: after any sequence of sort-menu and filter changes, at most one of
\* the original and the sorted view is visible, and the view that is not the
\* active one is hidden.
C14_OneViewVisible ==
    /\ ~(origShown /\ sorted # <<>> /\ sortedShown)
    /\ Recomputed => IF Alpha THEN ~origShown ELSE ~(sorted # <<>> /\ sortedShown)

\* C15: the text query is matched against the title as a substring whatever
\* the case.  With the items "Apple" (tags fruit red) and "Banana" (tags
\* fruit yellow) and the tag "fruit" selected, an empty text shows both and
\* the text "ban" shows exactly "Banana".
C15_TextQueryScenario ==
    (Recomputed /\ container = Fruit /\ tagval = "fruit")
        => /\ titleval = <<>> => ShownItems(View) = {1, 2}
           /\ titleval = <<"b", "a", "n">> => ShownItems(View) = {2}

\* The titles of the items in alphabetical order.
Alphabetical == <<Apple, Apricot, Banana>>
Rank(t) == CHOOSE k \in DOMAIN Alphabetical : Alphabetical[k] = t

\* C16: the sorted clone is built at most once per container, by the first
\* recompute in alphabetical mode and never before, and is reused afterwards;
\* once built it holds exactly one copy of every original item, in ascending
\* order of title.
C16_SortCache ==
    /\ [](builds <= 1 /\ (sorted # <<>> <=> builds = 1))
    /\ [](sorted # <<>>
            => /\ Len(sorted) = Len(container.items)
               /\ {sorted[k] : k \in DOMAIN sorted} = Ids(container)
               /\ \A k, l \in DOMAIN sorted :
                     ( /\ k < l
                       /\ container.items[sorted[k]].hasTitle
                       /\ container.items[sorted[l]].hasTitle )
                     => Rank(container.items[sorted[k]].title)
                            <= Rank(container.items[sorted[l]].title))
    /\ [][ /\ sorted' # sorted => (sorted = <<>> /\ sortval' = "alpha")
           /\ (Alpha' /\ sorted # <<>>) => (sorted' = sorted /\ sortedShown') ]_vars

\* A key in the title filter has recomputed the container with the three
\* headed items in alphabetical mode, on the clone built earlier: Apple,
\* apricot, Banana.
C16_Witness ==
    /\ container = Grouped
    /\ fev.type = "keyup"
    /\ Alpha
    /\ builds = 1
    /\ sorted = <<3, 1, 2>>
    /\ sortedShown

\* The display before any recompute.
FreshView ==
    [origShown |-> TRUE, sorted |-> <<>>, sortedShown |-> FALSE,
     itemShown |-> AllShown(Ids(container)),
     cloneShown |-> [i \in Ids(container) |-> FALSE],
     headShown |-> AllShown(Heads(container))]

\* C17: idempotence.  Running the recompute once more, with the same clear
\* flag and the controls as they are, leaves the same visible items, headings
\* and views; and what is visible after a recompute depends on the controls
\* only, not on what was visible before: it is what the recompute shows on a
\* container nothing was hidden in yet.
C17_Idempotence ==
    [][ Recomputed'
        => LET again == updateFilter(View', fev'.clear, sortval', tagval',
                                     menuval', titleval')
               fresh == updateFilter(FreshView, fev'.clear, sortval', tagval',
                                     menuval', titleval')
           IN /\ Visible(again.view) = Visible(View')
              /\ again.title = titleval'
              /\ Visible(fresh.view) = Visible(View') ]_vars

\* C18: in a container none of whose items has a title (so without a title
\* filter), a recompute started by the tag menu or the custom menu ends
\* without an error and hides exactly the items that fail the constraints
\* selected.
C18_NoTitleControl ==
    (fev.type \in {"tag", "menu"} /\ ~controls.title)
        => /\ ~fev.thrown
           /\ ActiveShown = {i \in Ids(container) :
                                SatisfiesMenus(container.items[i])}

\* C19: switching a sortable container to alphabetical mode when an item has
\* no title ends without an error: the sorted clone is there with a copy of
\* every item, and the original is hidden.
C19_AlphaUntitled ==
    ( /\ fev.type = "sort" /\ sortval = "alpha"
      /\ \E i \in Ids(container) : ~container.items[i].hasTitle )
        => /\ ~fev.thrown
           /\ {sorted[k] : k \in DOMAIN sorted} = Ids(container)
           /\ Len(sorted) = Len(container.items)
           /\ ~origShown

\* C20: the sort menu is created iff the container is sortable and holds
\* more than two items; it offers "source", the value it starts at, then
\* "alpha", and then "groups", once, iff some item has a group.
C20_SortControl ==
    LET n == Len(container.items)
        grouped == \E i \in Ids(container) : container.items[i].group
    IN /\ controls.sort # <<>> <=> (container.sortable /\ n > 2)
       /\ controls.sort # <<>>
            => controls.sort = IF grouped THEN <<"source", "alpha", "groups">>
                               ELSE <<"source", "alpha">>
       /\ ~Recomputed => sortval = "source"

\* The container with two grouped items among three has its sort menu, with
\* the group option once.
C20_Witness ==
    /\ container = Grouped
    /\ Cardinality({i \in Ids(container) : container.items[i].group}) = 2
    /\ controls.sort = <<"source", "alpha", "groups">>
    /\ sortval = "groups"

\* C24: the clear flag.  A recompute with the clear flag (tag or custom
\* menu) while a tag or a value is selected leaves the text empty, and what
\* it shows is what it shows on an empty text box: the text plays no part.
\* A recompute without the flag (key in the title filter, sort menu), or with
\* it while every menu is at "*", leaves the text as it is.  No recompute
\* changes what the tag, custom and sort menus are at.
C24_ClearFlag ==
    [][ /\ \A tag \in controls.tags :
              TagChange(tag)
              => /\ tagval' = tag /\ UNCHANGED <<menuval, sortval>>
                 /\ IF tag # "*" \/ (controls.menu # {} /\ menuval # "*")
                    THEN /\ titleval' = <<>>
                         /\ Visible(View') =
                              Visible(updateFilter(View, TRUE, sortval, tag,
                                                   menuval, <<>>).view)
                    ELSE titleval' = titleval
        /\ \A value \in controls.menu :
              MenuChange(value)
              => /\ menuval' = value /\ UNCHANGED <<tagval, sortval>>
                 /\ IF value # "*" \/ (controls.tags # {} /\ tagval # "*")
                    THEN /\ titleval' = <<>>
                         /\ Visible(View') =
                              Visible(updateFilter(View, TRUE, sortval, tagval,
                                                   value, <<>>).view)
                    ELSE titleval' = titleval
        /\ \A typed \in Queries :
              TitleKeyup(typed)
              => (titleval' = typed /\ UNCHANGED <<tagval, menuval, sortval>>)
        /\ \A sortedby \in {"source", "alpha", "groups"} :
              SortChange(sortedby)
              => /\ sortval' = sortedby
                 /\ UNCHANGED <<titleval, tagval, menuval>> ]_vars

\* C25: the sort mode does not change membership.  Whatever the tag, value
\* and text are at, a recompute in alphabetical mode shows the clones of
\* exactly the items a recompute in source order shows; and a recompute
\* changes the display of no item of the view it does not filter.
C25_SortKeepsMembership ==
    [][ (Recomputed' /\ controls.sort # <<>>)
        => LET bysource == updateFilter(View', FALSE, "source", tagval',
                                        menuval', titleval').view
               byalpha == updateFilter(View', FALSE, "alpha", tagval',
                                       menuval', titleval').view
           IN /\ ShownClones(byalpha) = ShownItems(bysource)
              /\ Alpha' => itemShown' = itemShown
              /\ sortval' = "source" => cloneShown' = cloneShown ]_vars

\* ----------------------------------------------- properties of the editor

\* C27: at most one preview request is in flight at any time, and the
\* previewing flag is true exactly while a preview request is in flight.
C27_MutualExclusion ==
    /\ previews <= 1
    /\ previewing <=> previews > 0

\* A preview was asked for while a request was in flight.
PreviewPending == needsPreview /\ previews > 0

\* The success callback has served the pending preview: it has issued a
\* further request, or has cleared the preview of an empty editor.
PendingServed == eev \in {"sent", "cleared"}

\* needsPreview is false whenever no request is in flight.
NoPendingWhenIdle == previews = 0 => ~needsPreview

\* C28: a preview called for while a request is in flight is served once
\* that request finishes, by success or by failure, without a further
\* user action; and needsPreview is false whenever no request is in flight.
C28_PendingPreviewServed ==
    /\ []NoPendingWhenIdle
    /\ PreviewPending ~> PendingServed

\* The paths of the array are pairwise different.
NoDuplicate(a) == \A i, j \in DOMAIN a : a[i] = a[j] => i = j

\* C29: each file path appears at most once among the open tabs, in
\* activeFile and in modifiedFile, also when the same path was opened a
\* second time while its first load was in flight.
C29_NoDuplicateOpenFile == NoDuplicate(activeFile) /\ NoDuplicate(modifiedFile)

\* The tabs shown as active.
ActiveTabs == {k \in DOMAIN tabs : tabs[k].active}

\* activeFile and modifiedFile have the same length and the same path at
\* every index, cmInstanceList has max(1, open files) instances, and
\* activeTabPos is -1 when no file is open and otherwise an index of
\* activeFile, that of the one tab shown as active.
Consistent ==
    LET n == Len(activeFile)
    IN  /\ modifiedFile = activeFile
        /\ Len(cmInstanceList) = IF n = 0 THEN 1 ELSE n
        /\ IF n = 0
           THEN activeTabPos = -1
           ELSE /\ InRange(activeFile, activeTabPos)
                /\ \E k \in DOMAIN tabs :
                      /\ ActiveTabs = {k}
                      /\ tabs[k].path = activeFile[activeTabPos + 1]

\* No path is open twice.
Distinct == NoDuplicate(activeFile)

\* C30: after any sequence of open, switch, close, delete-file and
\* close-all operations the bookkeeping is consistent.  Stated over the
\* behaviours in which no path is ever open twice, so that what fails is
\* the bookkeeping and not the duplicate of C29.  A safety property: a
\* finite run to a state that is not Consistent violates it.
C30_Bookkeeping == []Distinct => []Consistent
====
